---- MODULE Spec2Model ----
(***************************************************************************)
(* Model of downloader/downloader.go (gitmoo-goog): the naming strategy    *)
(* (getFileName and its two helpers), the item persister (createJSON,       *)
(* createImage, downloadItem), the pagination driver (DownloadAll) and the *)
(* run statistics (stats).                                                 *)
(*                                                                         *)
(* Strings are tuples of one-character strings, so that slicing            *)
(* (item.Id[len-8:], hash[:4]) and concatenation (name + ".json") are      *)
(* computed as the code computes them.  A path is the tuple of its         *)
(* components, which is what filepath.Join yields for components that      *)
(* hold no separator.                                                      *)
(***************************************************************************)
EXTENDS Integers, Sequences, FiniteSets, TLC

\* ------------------------------------------------------------------ bounds
\* DownloadAll is called at most MaxRuns times in a behaviour.
MaxRuns == 2
\* Options.PageSize is drawn from 1..MaxPageSize.
MaxPageSize == 2
\* The listing service answers at most MaxStalls fetches of a run with an
\* empty page that promises more.
MaxStalls == 1
\* Options.MaxItems is drawn from 0..MaxCap.
MaxCap == 2

\* ------------------------------------------------------- program constants
\* item.Id[len(item.Id)-8:]
IdSuffixLen == 8
\* hash[:4], hash[4:8], hash[8:]
HashSlice == 4

\* ----------------------------------------------------------------- strings
DigitChars == <<"0", "1", "2", "3", "4", "5", "6", "7", "8", "9">>

IsDigit(c) == \E i \in 1..10 : DigitChars[i] = c

DigitVal(c) == (CHOOSE i \in 1..10 : DigitChars[i] = c) - 1

\* strconv.Itoa / fmt.Sprintf("%v", n) for n >= 0
RECURSIVE Itoa(_)
Itoa(n) == IF n < 10 THEN <<DigitChars[n + 1]>>
           ELSE Itoa(n \div 10) \o <<DigitChars[(n % 10) + 1]>>

\* the decimal number written by the characters s[from..to]
RECURSIVE Atoi(_, _, _)
Atoi(s, from, to) ==
    IF to < from THEN 0
    ELSE 10 * Atoi(s, from, to - 1) + DigitVal(s[to])

AllDigits(s, from, to) == \A i \in from..to : IsDigit(s[i])

\* s[from:] of Go, 0-based; a negative bound is a run-time panic
SliceFrom(s, from) == SubSeq(s, from + 1, Len(s))

\* s[from:to] of Go, 0-based
Slice(s, from, to) == SubSeq(s, from + 1, to)

\* ---------------------------------------------------------------- time.Parse
MonthNames ==
    << <<"J","a","n","u","a","r","y">>, <<"F","e","b","r","u","a","r","y">>,
       <<"M","a","r","c","h">>, <<"A","p","r","i","l">>, <<"M","a","y">>,
       <<"J","u","n","e">>, <<"J","u","l","y">>, <<"A","u","g","u","s","t">>,
       <<"S","e","p","t","e","m","b","e","r">>, <<"O","c","t","o","b","e","r">>,
       <<"N","o","v","e","m","b","e","r">>, <<"D","e","c","e","m","b","e","r">> >>

IsLeap(y) == (y % 4 = 0) /\ ((y % 100 # 0) \/ (y % 400 = 0))

DaysIn(y, m) == IF m = 2 THEN (IF IsLeap(y) THEN 29 ELSE 28)
                ELSE IF m \in {4, 6, 9, 11} THEN 30 ELSE 31

\* time.Parse(time.RFC3339, s) on the UTC form "2006-01-02T15:04:05Z": the
\* creation times of the input set below are either of this form or no
\* RFC 3339 time at all (fractional seconds and numeric offsets do not occur
\* in them).  err is TRUE when the parse fails.
ParseRFC3339(s) ==
    LET shape == /\ Len(s) = 20
                 /\ AllDigits(s, 1, 4) /\ s[5] = "-"
                 /\ AllDigits(s, 6, 7) /\ s[8] = "-"
                 /\ AllDigits(s, 9, 10) /\ s[11] = "T"
                 /\ AllDigits(s, 12, 13) /\ s[14] = ":"
                 /\ AllDigits(s, 15, 16) /\ s[17] = ":"
                 /\ AllDigits(s, 18, 19) /\ s[20] = "Z"
        y == Atoi(s, 1, 4)
        m == Atoi(s, 6, 7)
        d == Atoi(s, 9, 10)
        range == /\ m \in 1..12
                 /\ d \in 1..DaysIn(y, m)
                 /\ Atoi(s, 12, 13) < 24
                 /\ Atoi(s, 15, 16) < 60
                 /\ Atoi(s, 18, 19) < 60
    IN  IF shape /\ range
        THEN [err |-> FALSE, year |-> y, month |-> m, day |-> d]
        ELSE [err |-> TRUE, year |-> 0, month |-> 0, day |-> 0]

\* ------------------------------------------------------------------ inputs
\* Options.BackupFolder
BackupFolder == <<"p","i","c","s">>

\* Item identifiers: IdA and IdB differ and share their last 8 characters,
\* IdC is exactly 8 characters long, IdShort is shorter than 8.
\* "1photo_aa"
IdA == <<"1","p","h","o","t","o","_","a","a">>
\* "2photo_aa"
IdB == <<"2","p","h","o","t","o","_","a","a">>
\* "photo_cc"
IdC == <<"p","h","o","t","o","_","c","c">>
\* "abc"
IdShort == <<"a","b","c">>

\* MediaMetadata.CreationTime: absent, a day out of range, valid.
TsAbsent == <<>>

\* "2019-02-30T10:00:00Z"
TsBadDay == <<"2","0","1","9","-","0","2","-","3","0","T","1","0",":","0","0",":","0","0","Z">>

\* "2019-03-05T10:00:00Z"
TsMar5 == <<"2","0","1","9","-","0","3","-","0","5","T","1","0",":","0","0",":","0","0","Z">>

\* BaseUrl of an item
UrlOf(id) == <<"u","/">> \o id

\* hex.EncodeToString(md5(id)) of the identifiers of the input set (the
\* digests are the real MD5 digests of the four strings).
Md5Hex(id) ==
    CASE id = IdA -> <<"8","9","8","2","4","1","e","e","0","9","0","4","8","1","4","6","5","f","c","6","1","4","3","a","d","3","1","7","6","9","e","0">>
      [] id = IdB -> <<"c","b","2","5","a","6","d","0","4","4","4","d","b","e","c","0","3","2","5","c","6","f","7","0","4","f","f","b","4","8","4","c">>
      [] id = IdC -> <<"9","1","1","3","6","7","7","e","a","d","5","b","e","2","1","4","9","9","c","c","e","2","b","0","f","9","3","4","5","6","b","0">>
      [] id = IdShort -> <<"9","0","0","1","5","0","9","8","3","c","d","2","4","f","b","0","d","6","9","6","3","f","7","d","2","8","e","1","7","f","7","2">>

\* The media items the listing service can return.  Video is
\* MediaMetadata.Video != nil; Description stands for the editable part of
\* the metadata: an edit of the remote library (ver) changes it.
\*   a  a photo with a valid creation time
\*   b  another photo of the same day whose id ends like a's
\*   s  a short id with a valid creation time
\*   h  a short id with no creation time, a video
\*   c  a creation time that does not parse, an unknown media type
\*   d  an id of exactly 8 characters with a valid creation time, a video
ItemKeys == {"a", "b", "s", "h", "c", "d"}

Item(k, ver) ==
    LET of(id, time, mimeType, video) ==
            [Id |-> id, CreationTime |-> time, MimeType |-> mimeType,
             Video |-> video, BaseUrl |-> UrlOf(id), Description |-> ver]
    IN  CASE k = "a" -> of(IdA, TsMar5, "image/jpeg", FALSE)
          [] k = "b" -> of(IdB, TsMar5, "image/jpeg", FALSE)
          [] k = "s" -> of(IdShort, TsMar5, "image/jpeg", FALSE)
          [] k = "h" -> of(IdShort, TsAbsent, "video/mp4", TRUE)
          [] k = "c" -> of(IdC, TsBadDay, "application/x-raw", FALSE)
          [] k = "d" -> of(IdC, TsMar5, "video/mp4", TRUE)

\* mime.ExtensionsByType: the extensions registered for a media type, sorted
\* (the table of the Go runtime for the types of the input set; no entry for
\* a type it does not know).
ExtensionsByType(mimeType) ==
    CASE mimeType = "image/jpeg" -> << <<".","j","p","e","g">>, <<".","j","p","g">> >>
      [] mimeType = "video/mp4" -> << <<".","m","p","4">> >>
      [] OTHER -> << >>

\* ------------------------------------------------------------ naming strategy
\* path + suffix: the suffix is appended to the last component
AppendStr(path, s) == [path EXCEPT ![Len(path)] = @ \o s]

\* filepath.Dir
Dir(path) == SubSeq(path, 1, Len(path) - 1)

\* getFileNameByTime: err when the creation time does not parse; panic when
\* it parses and the id is shorter than 8 characters (slice bounds out of
\* range in item.Id[len(item.Id)-8:]).
getFileNameByTime(item) ==
    LET t == ParseRFC3339(item.CreationTime)
    IN  IF t.err
        THEN [panic |-> FALSE, err |-> TRUE, name |-> <<>>]
        ELSE IF Len(item.Id) - IdSuffixLen < 0
        THEN [panic |-> TRUE, err |-> FALSE, name |-> <<>>]
        ELSE [panic |-> FALSE, err |-> FALSE,
              name |-> <<BackupFolder, Itoa(t.year), MonthNames[t.month],
                         Itoa(t.day) \o <<"_">>
                            \o SliceFrom(item.Id, Len(item.Id) - IdSuffixLen)>>]

\* a fallback name with three directory levels
getFileNameByHashDeep(item) ==
    LET hash == Md5Hex(item.Id)
    IN  <<BackupFolder, Slice(hash, 0, HashSlice),
          Slice(hash, HashSlice, 2 * HashSlice),
          Slice(hash, 2 * HashSlice, 3 * HashSlice),
          SliceFrom(hash, 3 * HashSlice)>>

getFileNameByHash(item) ==
    LET hash == Md5Hex(item.Id)
    IN  <<BackupFolder, Slice(hash, 0, HashSlice),
          Slice(hash, HashSlice, 2 * HashSlice), SliceFrom(hash, 2 * HashSlice)>>

getFileName(item) ==
    LET byTime == getFileNameByTime(item)
    IN  IF byTime.panic THEN [panic |-> TRUE, name |-> <<>>]
        ELSE IF byTime.err THEN [panic |-> FALSE, name |-> getFileNameByHash(item)]
        ELSE [panic |-> FALSE, name |-> byTime.name]

JsonSuffix == <<".","j","s","o","n">>

\* ------------------------------------------------------------ the environment
\* The file system: files maps the path of every existing file to its
\* content (a tuple of bytes), dirs is the set of existing directories.
EmptyDisk == [files |-> << >>, dirs |-> {}]

Exists(disk, path) == path \in DOMAIN disk.files

\* the content of `path` becomes `bytes` (the file is created when missing)
PutFile(disk, path, bytes) ==
    [disk EXCEPT !.files = [p \in (DOMAIN disk.files) \cup {path} |->
                                IF p = path THEN bytes ELSE disk.files[p]]]

\* os.MkdirAll: the directory and all its ancestors exist afterwards
MkdirAll(disk, dir) ==
    [disk EXCEPT !.dirs = @ \cup {SubSeq(dir, 1, n) : n \in 1..Len(dir)}]

\* What can go wrong in one call of downloadItem.  statJSON: os.Stat of the
\* sidecar fails with an error other than "not exist".  at: the first
\* operation after that which fails ("none": nothing fails); n: the bytes
\* written before a failing write or copy gives up.
Faults ==
    [statJSON : BOOLEAN,
     at : {"none", "marshal", "mkdir", "openJSON", "get", "statImage", "create"},
     n : {0}]
    \cup [statJSON : BOOLEAN, at : {"write", "copy"}, n : {0, 1}]

NoFault == [statJSON |-> FALSE, at |-> "none", n |-> 0]

\* The remote asset behind a content URL.  remoteVer counts the edits of the
\* remote library: version 1 of every asset is 2 bytes long, version 2 is 1
\* byte long.  The first byte is the URL itself, so the assets of two URLs
\* differ.
RemoteBody(url, ver) == IF ver = 1 THEN <<url, "x">> ELSE <<url>>

\* http.Get: the response to a content fetch.  lengthKnown is FALSE when the
\* server does not declare a length (ContentLength is -1 then).
Response(url, ver, lengthKnown) ==
    LET body == RemoteBody(url, ver)
    IN  [ContentLength |-> IF lengthKnown THEN Len(body) ELSE -1, Body |-> body]

\* ------------------------------------------------------------- item persister
\* item.MarshalJSON(): the identifier, then the rest of the metadata
MarshalJSON(item) ==
    <<item.Id, [CreationTime |-> item.CreationTime, MimeType |-> item.MimeType,
                Video |-> item.Video, BaseUrl |-> item.BaseUrl,
                Description |-> item.Description]>>

\* a sidecar check that takes every path for a missing one
AlwaysNotExist(disk, fileName, f) == TRUE

\* _, err := os.Stat(fileName); os.IsNotExist(err): the file is missing and
\* os.Stat said so
IsNotExist(disk, fileName, f) == ~f.statJSON /\ ~Exists(disk, fileName)

\* createJSON(item, fileName): the new disk, whether an error is returned,
\* and the operation that failed ("none" when none did)
createJSON(item, fileName, disk, f) ==
    IF ~IsNotExist(disk, fileName, f)
    THEN [disk |-> disk, err |-> FALSE, failed |-> "none"]
    ELSE IF f.at = "marshal"
    THEN [disk |-> disk, err |-> TRUE, failed |-> "marshal"]
    ELSE IF f.at = "mkdir"
    THEN [disk |-> disk, err |-> TRUE, failed |-> "mkdir"]
    ELSE LET made == MkdirAll(disk, Dir(fileName))
             bytes == MarshalJSON(item)
         IN  IF f.at = "openJSON"
             THEN [disk |-> made, err |-> TRUE, failed |-> "openJSON"]
             ELSE IF f.at = "write"
             THEN [disk |-> PutFile(made, fileName, SubSeq(bytes, 1, f.n)),
                   err |-> TRUE, failed |-> "write"]
             ELSE [disk |-> PutFile(made, fileName, bytes), err |-> FALSE,
                   failed |-> "none"]

\* a fetch that asks for the still image of every item
ContentUrlOfImage(item) == item.BaseUrl \o <<"=","d">>

\* the URL createImage fetches
ContentUrl(item) ==
    IF item.Video THEN item.BaseUrl \o <<"=","d","v">>
    ELSE item.BaseUrl \o <<"=","d">>

NoUrl == << >>

\* a size check that never finds the file complete
NeverSameSize(disk, fileName, response) == FALSE

\* a size check that takes every existing file for a complete one
SameSizeIfExists(disk, fileName, response) == Exists(disk, fileName)

\* fileInfo != nil and response.ContentLength == fileInfo.Size()
SameSize(disk, fileName, response) ==
    /\ Exists(disk, fileName)
    /\ response.ContentLength = Len(disk.files[fileName])

\* an accounting that keeps the size of the last download only
CountedLast(st, n) == [st EXCEPT !.downloaded = @ + 1, !.totalsize = n]

\* an accounting that forgets the bytes
CountedWithoutBytes(st, n) == [st EXCEPT !.downloaded = @ + 1]

\* stats.downloaded++; stats.totalsize += uint64(n)
Counted(st, n) == [st EXCEPT !.downloaded = @ + 1, !.totalsize = @ + n]

\* createImage(item, fileName).  Besides the new disk, the new stats and the
\* error flag, the result tells what the call did: request, the URL handed
\* to http.Get; url, the URL of the response (NoUrl when http.Get failed); open, whether the response body is still
\* open at the return; created, whether os.Create succeeded; skipped,
\* whether the file was found complete; failed, the operation that failed.
createImage(item, fileName, disk, st, f, ver, lengthKnown) ==
    LET url == ContentUrl(item)
        response == Response(url, ver, lengthKnown)
        none == [disk |-> disk, stats |-> st, err |-> TRUE, request |-> url,
                 url |-> url, open |-> TRUE, created |-> FALSE, skipped |-> FALSE,
                 failed |-> "none"]
    IN  IF f.at = "get"
        THEN [none EXCEPT !.url = NoUrl, !.open = FALSE, !.failed = "get"]
        ELSE IF f.at = "statImage" THEN [none EXCEPT !.failed = "statImage"]
        ELSE IF SameSize(disk, fileName, response)
        THEN [none EXCEPT !.err = FALSE, !.skipped = TRUE]
        ELSE IF f.at = "create" \/ Dir(fileName) \notin disk.dirs
        THEN [none EXCEPT !.failed = "create"]
        ELSE IF f.at = "copy"
        THEN [none EXCEPT !.disk = PutFile(disk, fileName,
                                           SubSeq(response.Body, 1, f.n)),
                          !.open = FALSE, !.created = TRUE, !.failed = "copy"]
        ELSE [none EXCEPT !.disk = PutFile(disk, fileName, response.Body),
                          !.stats = Counted(st, Len(response.Body)),
                          !.err = FALSE, !.open = FALSE, !.created = TRUE]

jsonNameOf(name) == AppendStr(name, JsonSuffix)

imageNameOf(item, name) ==
    LET ext == ExtensionsByType(item.MimeType)
    IN  IF Len(ext) > 0 THEN AppendStr(name, ext[1]) ELSE name

\* a fault that the call can meet: a write cannot fail after its last byte
FaultFits(f, item, ver) ==
    /\ f.at = "write" => f.n < Len(MarshalJSON(item))
    /\ f.at = "copy" => f.n < Len(RemoteBody(ContentUrl(item), ver))

\* name := getFileName(item), for every item of the input set (the name does
\* not depend on the version of the item)
FileNames == [k \in ItemKeys |-> getFileName(Item(k, 1))]

\* a persist that goes on to the payload whatever createJSON returned
downloadItemPastJSON(m, disk, st, ver) ==
    LET item == Item(m, ver)
        fn == FileNames[m]
        quiet == [panic |-> TRUE, statJSON |-> FALSE, disk |-> disk,
                  stats |-> st, err |-> FALSE, name |-> fn.name,
                  request |-> NoUrl, url |-> NoUrl, open |-> FALSE,
                  created |-> FALSE, skipped |-> FALSE, failed |-> "none",
                  ContentLength |-> -1]
        outcome(f, lengthKnown) ==
            LET j == createJSON(item, jsonNameOf(fn.name), disk, f)
                i == createImage(item, imageNameOf(item, fn.name), j.disk, st,
                                 f, ver, lengthKnown)
            IN  [panic |-> FALSE, statJSON |-> f.statJSON, name |-> fn.name,
                 ContentLength |->
                     IF i.url = NoUrl THEN -1
                     ELSE Response(i.url, ver, lengthKnown).ContentLength]
                @@ [i EXCEPT !.failed = IF j.err THEN j.failed ELSE @]
    IN  IF fn.panic THEN {quiet}
        ELSE {outcome(f, lengthKnown) :
                 f \in {g \in Faults : FaultFits(g, item, ver)},
                 lengthKnown \in BOOLEAN}

\* downloadItem(svc, item) for the item of key m: the outcomes of the call,
\* one for every fault it can meet and every way the server may answer.
\* panic is TRUE when getFileName panics; statJSON, when os.Stat of the
\* sidecar failed; name is the name getFileName returned; ContentLength is
\* the length the response declared (-1: none, or no response).
downloadItem(m, disk, st, ver) ==
    LET item == Item(m, ver)
        fn == FileNames[m]
        jsonName == jsonNameOf(fn.name)
        imageName == imageNameOf(item, fn.name)
        quiet == [panic |-> FALSE, statJSON |-> FALSE, disk |-> disk,
                  stats |-> st, err |-> FALSE, name |-> fn.name,
                  request |-> NoUrl, url |-> NoUrl, open |-> FALSE,
                  created |-> FALSE, skipped |-> FALSE, failed |-> "none",
                  ContentLength |-> -1]
        outcome(f, lengthKnown) ==
            LET j == createJSON(item, jsonName, disk, f)
                i == createImage(item, imageName, j.disk, st, f, ver, lengthKnown)
            IN  IF j.err
                THEN [quiet EXCEPT !.disk = j.disk, !.err = TRUE,
                                   !.failed = j.failed]
                ELSE [panic |-> FALSE, statJSON |-> f.statJSON,
                      name |-> fn.name,
                      ContentLength |->
                          IF i.url = NoUrl THEN -1
                          ELSE Response(i.url, ver, lengthKnown).ContentLength]
                     @@ i
    IN  IF fn.panic THEN {[quiet EXCEPT !.panic = TRUE]}
        ELSE {outcome(f, lengthKnown) :
                 f \in {g \in Faults : FaultFits(g, item, ver)},
                 lengthKnown \in BOOLEAN}

\* -------------------------------------------------------------------- state
VARIABLES
    MaxItems,    \* Options.MaxItems
    PageSize,    \* Options.PageSize
    listing,     \* the items of the album, in the order the service lists them
    stats,       \* the run statistics: total, errors, totalsize, downloaded
    hasMore,     \* DownloadAll's loop flag
    PageToken,   \* req.PageToken, "" on the first fetch
    items,       \* the page last fetched: MediaItems and NextPageToken
    idx,         \* position of the range loop in items.MediaItems
    pc,          \* where DownloadAll stands
    result,      \* what the last call of DownloadAll returned
    disk,        \* the file system
    remoteVer,   \* the version of the remote library
    runs,        \* calls of DownloadAll so far
    sleeps,      \* throttle sleeps of this run
    fetches,     \* page fetches attempted in this run
    delivered,   \* items delivered by the pages fetched in this run
    stalls,      \* empty pages that promised more, in this run
    last         \* the downloadItem call of the latest step, if it made one

config == <<MaxItems, PageSize, listing>>

vars == <<MaxItems, PageSize, listing, stats, hasMore, PageToken, items, idx,
          pc, result, disk, remoteVer, runs, sleeps, fetches, delivered,
          stalls, last>>

ZeroStats == [total |-> 0, errors |-> 0, totalsize |-> 0, downloaded |-> 0]

NoPage == [MediaItems |-> << >>, NextPageToken |-> ""]

NoCall == [called |-> FALSE]

\* the albums of the input set: the empty album; one item whose creation
\* time does not parse; an item listed twice; two items whose ids end alike
\* and a video; an item whose name cannot be built, after and before others
Listings ==
    { << >>, <<"c">>, <<"a", "a">>, <<"a", "b", "d">>, <<"h", "s", "c">> }

Min(x, y) == IF x < y THEN x ELSE y

Init ==
    /\ MaxItems \in 0..MaxCap
    /\ PageSize \in 1..MaxPageSize
    /\ listing \in Listings
    /\ stats = ZeroStats
    /\ hasMore = FALSE
    /\ PageToken = ""
    /\ items = NoPage
    /\ idx = 1
    /\ pc = "idle"
    /\ result = "none"
    /\ disk = EmptyDisk
    /\ remoteVer = 1
    /\ runs = 0
    /\ sleeps = 0
    /\ fetches = 0
    /\ delivered = 0
    /\ stalls = 0
    /\ last = NoCall

\* ------------------------------------------------------------- DownloadAll
\* a call that goes on counting where the previous run stopped
CallKeepsStats ==
    /\ pc \in {"idle", "returned", "panicked"}
    /\ runs < MaxRuns
    /\ runs' = runs + 1
    /\ hasMore' = TRUE
    /\ PageToken' = ""
    /\ items' = NoPage
    /\ idx' = 1
    /\ pc' = "loop"
    /\ result' = "none"
    /\ sleeps' = 0
    /\ fetches' = 0
    /\ delivered' = 0
    /\ stalls' = 0
    /\ last' = NoCall
    /\ UNCHANGED <<config, stats, disk, remoteVer>>

\* the call: the counters are reset and the request is built
Call ==
    /\ pc \in {"idle", "returned", "panicked"}
    /\ runs < MaxRuns
    /\ runs' = runs + 1
    /\ hasMore' = TRUE
    /\ stats' = ZeroStats
    /\ PageToken' = ""
    /\ items' = NoPage
    /\ idx' = 1
    /\ pc' = "loop"
    /\ result' = "none"
    /\ sleeps' = 0
    /\ fetches' = 0
    /\ delivered' = 0
    /\ stalls' = 0
    /\ last' = NoCall
    /\ UNCHANGED <<config, disk, remoteVer>>

\* a loop that does not sleep before the first fetch
ThrottleAfterFirstFetch ==
    /\ pc = "loop"
    /\ hasMore
    /\ sleeps' = IF fetches = 0 THEN sleeps ELSE sleeps + 1
    /\ pc' = "search"
    /\ last' = NoCall
    /\ UNCHANGED <<config, stats, hasMore, PageToken, items, idx, result, disk,
                   remoteVer, runs, fetches, delivered, stalls>>

\* for hasMore { log; time.Sleep(sleepTime)
Throttle ==
    /\ pc = "loop"
    /\ hasMore
    /\ sleeps' = sleeps + 1
    /\ pc' = "search"
    /\ last' = NoCall
    /\ UNCHANGED <<config, stats, hasMore, PageToken, items, idx, result, disk,
                   remoteVer, runs, fetches, delivered, stalls>>

\* the loop ends: the summary line and return nil
Return ==
    /\ pc = "loop"
    /\ ~hasMore
    /\ pc' = "returned"
    /\ result' = "nil"
    /\ last' = NoCall
    /\ UNCHANGED <<config, stats, hasMore, PageToken, items, idx, disk,
                   remoteVer, runs, sleeps, fetches, delivered, stalls>>

\* svc.MediaItems.Search(req).Do() answers with a page: the next n items of
\* the album, at most PageSize of them, and a token that is empty only when
\* the album is exhausted
SearchOk ==
    /\ pc = "search"
    /\ \E n \in 0..Min(PageSize, Len(listing) - delivered), token \in {"", "next"} :
          /\ token = "" => delivered + n = Len(listing)
          /\ (n = 0 /\ token = "next") => stalls < MaxStalls
          /\ stalls' = IF n = 0 /\ token = "next" THEN stalls + 1 ELSE stalls
          /\ items' = [MediaItems |-> SubSeq(listing, delivered + 1, delivered + n),
                       NextPageToken |-> token]
          /\ delivered' = delivered + n
          /\ pc' = IF n = 0 THEN "after" ELSE "range"
    /\ fetches' = fetches + 1
    /\ idx' = 1
    /\ last' = NoCall
    /\ UNCHANGED <<config, stats, hasMore, PageToken, result, disk, remoteVer,
                   runs, sleeps>>

\* a failing fetch that takes back what the run has counted
SearchFailRollsBack ==
    /\ pc = "search"
    /\ fetches' = fetches + 1
    /\ stats' = ZeroStats
    /\ pc' = "returned"
    /\ result' = "error"
    /\ last' = NoCall
    /\ UNCHANGED <<config, hasMore, PageToken, items, idx, disk, remoteVer, runs,
                   sleeps, delivered, stalls>>

\* svc.MediaItems.Search(req).Do() fails: return err
SearchFail ==
    /\ pc = "search"
    /\ fetches' = fetches + 1
    /\ pc' = "returned"
    /\ result' = "error"
    /\ last' = NoCall
    /\ UNCHANGED <<config, stats, hasMore, PageToken, items, idx, disk,
                   remoteVer, runs, sleeps, delivered, stalls>>

\* stats.total++ takes the total over the cap: hasMore = false; break
OverCap ==
    /\ pc = "range"
    /\ stats.total + 1 > MaxItems
    /\ stats' = [stats EXCEPT !.total = @ + 1]
    /\ hasMore' = FALSE
    /\ pc' = "after"
    /\ last' = NoCall
    /\ UNCHANGED <<config, PageToken, items, idx, result, disk, remoteVer,
                   runs, sleeps, fetches, delivered, stalls>>

\* a range loop that hands one item beyond the cap to downloadItem
DownloadPastCap ==
    /\ pc = "range"
    /\ stats.total + 1 <= MaxItems + 1
    /\ LET m == items.MediaItems[idx]
           counted == [stats EXCEPT !.total = @ + 1]
       IN  \E r \in downloadItem(m, disk, counted, remoteVer) :
              /\ disk' = r.disk
              /\ stats' = IF r.err THEN [r.stats EXCEPT !.errors = @ + 1]
                          ELSE r.stats
              /\ last' = [called |-> TRUE, item |-> m, panic |-> r.panic,
                          statJSON |-> r.statJSON, failed |-> r.failed,
                          err |-> r.err, name |-> r.name,
                          request |-> r.request, url |-> r.url, open |-> r.open,
                          created |-> r.created, skipped |-> r.skipped,
                          ContentLength |-> r.ContentLength]
              /\ pc' = IF r.panic THEN "panicked"
                       ELSE IF idx + 1 > Len(items.MediaItems) THEN "after"
                       ELSE "range"
              /\ idx' = IF r.panic THEN idx ELSE idx + 1
    /\ UNCHANGED <<config, hasMore, PageToken, items, result, remoteVer, runs,
                   sleeps, fetches, delivered, stalls>>

\* one iteration of the range loop under the cap: stats.total++, then
\* downloadItem, then stats.errors++ when it returned an error
Download ==
    /\ pc = "range"
    /\ stats.total + 1 <= MaxItems
    /\ LET m == items.MediaItems[idx]
           counted == [stats EXCEPT !.total = @ + 1]
       IN  \E r \in downloadItem(m, disk, counted, remoteVer) :
              /\ disk' = r.disk
              /\ stats' = IF r.err THEN [r.stats EXCEPT !.errors = @ + 1]
                          ELSE r.stats
              /\ last' = [called |-> TRUE, item |-> m, panic |-> r.panic,
                          statJSON |-> r.statJSON, failed |-> r.failed,
                          err |-> r.err, name |-> r.name,
                          request |-> r.request, url |-> r.url, open |-> r.open,
                          created |-> r.created, skipped |-> r.skipped,
                          ContentLength |-> r.ContentLength]
              /\ pc' = IF r.panic THEN "panicked"
                       ELSE IF idx + 1 > Len(items.MediaItems) THEN "after"
                       ELSE "range"
              /\ idx' = IF r.panic THEN idx ELSE idx + 1
    /\ UNCHANGED <<config, hasMore, PageToken, items, result, remoteVer, runs,
                   sleeps, fetches, delivered, stalls>>

\* a token update that never ends the loop
AdvanceIgnoresToken ==
    /\ pc = "after"
    /\ PageToken' = items.NextPageToken
    /\ pc' = "loop"
    /\ last' = NoCall
    /\ UNCHANGED <<config, stats, hasMore, items, idx, result, disk, remoteVer,
                   runs, sleeps, fetches, delivered, stalls>>

\* after the range loop: req.PageToken = items.NextPageToken, and an empty
\* token ends the loop
Advance ==
    /\ pc = "after"
    /\ PageToken' = items.NextPageToken
    /\ hasMore' = IF items.NextPageToken = "" THEN FALSE ELSE hasMore
    /\ pc' = "loop"
    /\ last' = NoCall
    /\ UNCHANGED <<config, stats, items, idx, result, disk, remoteVer, runs,
                   sleeps, fetches, delivered, stalls>>

\* the remote library is edited: every asset and every item's metadata get
\* their second version
RemoteEdit ==
    /\ remoteVer = 1
    /\ remoteVer' = 2
    /\ last' = NoCall
    /\ UNCHANGED <<config, stats, hasMore, PageToken, items, idx, pc, result,
                   disk, runs, sleeps, fetches, delivered, stalls>>

Next ==
    \/ Call
    \/ Throttle
    \/ Return
    \/ SearchOk
    \/ SearchFail
    \/ OverCap
    \/ Download
    \/ Advance
    \/ RemoteEdit

Spec == Init /\ [][Next]_vars

\* the program steps: every blocking call returns, so a run never stops
\* while one of them is enabled (RemoteEdit and Call are the environment's)
Step ==
    \/ Throttle
    \/ Return
    \/ SearchOk
    \/ SearchFail
    \/ OverCap
    \/ Download
    \/ Advance

LiveSpec == Spec /\ WF_vars(Step)

\* ------------------------------------------------------------------- claims
\* the run is over: DownloadAll returned, or the process died in a panic
Ended == pc \in {"returned", "panicked"}

\* the payload and sidecar paths of an item that getFileName gives a name
ImagePath(item) == imageNameOf(item, getFileName(item).name)

JsonPath(item) == jsonNameOf(getFileName(item).name)

\* C1: with MaxItems = N and an album of more than N items, however it is
\* paged, the i-th item examined is handed to downloadItem exactly when
\* i <= N and it is the album's i-th item, the over-cap item changes nothing
\* but total, and a run that no page fetch failed ends with total = N + 1.
C1_CapBoundary ==
    /\ []((Ended /\ result # "error" /\ Len(listing) > MaxItems)
            => stats.total = MaxItems + 1)
    /\ [][stats'.total = stats.total + 1
            => IF stats'.total <= MaxItems
               THEN last'.called /\ last'.item = listing[stats'.total]
               ELSE /\ ~last'.called
                    /\ disk' = disk
                    /\ stats'.downloaded = stats.downloaded
                    /\ stats'.errors = stats.errors]_vars

\* C1 on the runs that DownloadAll returns from: the same statement, for a
\* run that ended with return nil.
C1_CapBoundaryOnReturn ==
    /\ []((pc = "returned" /\ result = "nil" /\ Len(listing) > MaxItems)
            => stats.total = MaxItems + 1)
    /\ [][stats'.total = stats.total + 1
            => IF stats'.total <= MaxItems
               THEN last'.called /\ last'.item = listing[stats'.total]
               ELSE /\ ~last'.called
                    /\ disk' = disk
                    /\ stats'.downloaded = stats.downloaded
                    /\ stats'.errors = stats.errors]_vars

\* C2: a run ends abnormally only when a page fetch failed: whatever item is
\* handed to downloadItem and whatever happens in the call, the range loop
\* goes on.
C2_OnlyFetchFailureAborts ==
    /\ [](Ended => result \in {"nil", "error"})
    /\ [][last'.called => pc' \in {"range", "after"}]_vars

\* C2 for the items whose name getFileName can build: every failure that
\* downloadItem returns leaves the loop running.
C2_ReturnedFailureGoesOn ==
    [][(last'.called /\ ~last'.panic)
          => /\ pc' \in {"range", "after"}
             /\ idx' = idx + 1
             /\ stats'.errors = stats.errors + (IF last'.err THEN 1 ELSE 0)]_vars

\* the item of the downloadItem call of the step taken, as the remote
\* library has it at the call
CalledItem == Item(last'.item, remoteVer)

\* s is a proper prefix of t
ProperPrefix(s, t) == Len(s) < Len(t) /\ s = SubSeq(t, 1, Len(s))

SizeDiffers ==
    /\ last'.called /\ ~last'.panic
    /\ last'.url # NoUrl
    /\ Exists(disk, ImagePath(CalledItem))
    /\ Len(disk.files[ImagePath(CalledItem)]) # last'.ContentLength

\* C4, as amended: when a file exists at the payload path and its size
\* differs from the content length of the response, then: if os.Stat or
\* os.Create fails, persist returns the error and the file and the counters
\* are untouched; if the copy breaks off, persist returns the error, the
\* counters are untouched and the file holds only the bytes copied; else the
\* file holds exactly the fetched content, downloaded is one more and the
\* byte counter grew by the bytes copied.
C4_Redownload ==
    [][SizeDiffers =>
          LET p == ImagePath(CalledItem)
              body == RemoteBody(last'.url, remoteVer)
              same == /\ stats'.downloaded = stats.downloaded
                      /\ stats'.totalsize = stats.totalsize
          IN  IF last'.failed \in {"statImage", "create"}
              THEN last'.err /\ ~last'.created /\ same
                   /\ disk'.files[p] = disk.files[p]
              ELSE IF last'.failed = "copy"
              THEN last'.err /\ last'.created /\ same
                   /\ ProperPrefix(disk'.files[p], body)
              ELSE /\ ~last'.err /\ last'.created
                   /\ disk'.files[p] = body
                   /\ stats'.downloaded = stats.downloaded + 1
                   /\ stats'.totalsize = stats.totalsize + Len(body)]_vars

\* both calls of one run wrote the payload of the same item: the second
\* found the file of the first, of another size than the response declared
C4_Witness ==
    /\ listing = <<"a", "a">>
    /\ runs = 1
    /\ stats.total = 2
    /\ stats.downloaded = 2
    /\ last.called /\ last.created /\ ~last.err

\* C4 as stated: when a file exists at the payload path and its size differs
\* from the content length of the response, persist truncates the file and
\* leaves it holding exactly the fetched content, and on a complete copy
\* downloaded is one more and the byte counter grew by the bytes copied.
C4_AlwaysOverwrites ==
    [][SizeDiffers =>
          LET p == ImagePath(CalledItem)
              body == RemoteBody(last'.url, remoteVer)
          IN  /\ last'.created
              /\ disk'.files[p] = body
              /\ ~last'.err => /\ stats'.downloaded = stats.downloaded + 1
                               /\ stats'.totalsize = stats.totalsize + Len(body)]_vars

\* the path of a sidecar: its last component ends in ".json"
IsSidecar(path) ==
    LET leaf == path[Len(path)]
    IN  /\ Len(leaf) >= Len(JsonSuffix)
        /\ SubSeq(leaf, Len(leaf) - Len(JsonSuffix) + 1, Len(leaf)) = JsonSuffix

\* C5: once a sidecar exists, no step changes or removes it.
C5_SidecarWrittenOnce ==
    [][\A p \in DOMAIN disk.files :
          IsSidecar(p) => /\ p \in DOMAIN disk'.files
                          /\ disk'.files[p] = disk.files[p]]_vars

\* an item whose metadata was edited is persisted again: the call returned
\* and the sidecar still holds the first version
C5_Witness ==
    /\ last.called /\ ~last.panic /\ ~last.err
    /\ remoteVer = 2
    /\ Exists(disk, JsonPath(Item(last.item, 2)))
    /\ disk.files[JsonPath(Item(last.item, 2))] = MarshalJSON(Item(last.item, 1))
    /\ MarshalJSON(Item(last.item, 2)) # MarshalJSON(Item(last.item, 1))

\* C6: the step in which a page fetch fails is a step from the fetch to the
\* return of the error that changes neither the counters nor the files, and
\* nothing changes them after the return.
C6_FetchFailureIsFatal ==
    /\ [][(result' = "error" /\ result # "error")
             => /\ pc = "search" /\ pc' = "returned"
                /\ fetches' = fetches + 1
                /\ stats' = stats
                /\ disk' = disk]_vars
    /\ [][(pc = "returned" /\ pc' = "returned")
             => /\ stats' = stats /\ disk' = disk /\ result' = result
                /\ fetches' = fetches /\ sleeps' = sleeps]_vars

\* the second page fetch failed after the first page's item was downloaded
C6_Witness ==
    /\ pc = "returned" /\ result = "error"
    /\ fetches = 2
    /\ stats.total = 1 /\ stats.downloaded = 1
    /\ DOMAIN disk.files # {}

\* C7: once a page fetch has answered with an empty token, the run makes no
\* further fetch and no further sleep, and it ends with return nil.
C7_EmptyTokenEndsRun ==
    /\ [][(fetches >= 1 /\ items.NextPageToken = "" /\ pc \in {"range", "after", "loop"})
             => /\ fetches' = fetches /\ sleeps' = sleeps
                /\ pc' \in {"range", "after", "loop", "returned", "panicked"}]_vars
    /\ []((Ended /\ result # "error" /\ fetches >= 1 /\ items.NextPageToken = "")
             => (pc = "returned" /\ result = "nil"))

\* C7 without its last part: after an empty token, no further fetch and no
\* further sleep, and the only return is return nil.
C7_NoFetchAfterEmptyToken ==
    /\ [][(fetches >= 1 /\ items.NextPageToken = "" /\ pc \in {"range", "after", "loop"})
             => /\ fetches' = fetches /\ sleeps' = sleeps
                /\ pc' \in {"range", "after", "loop", "returned", "panicked"}]_vars
    /\ []((pc = "returned" /\ result # "error" /\ fetches >= 1)
             => (result = "nil" /\ (items.NextPageToken = "" \/ stats.total > MaxItems)))

\* C8: a sleep has been made and no fetch yet exactly while DownloadAll
\* stands at the fetch; otherwise sleeps and fetch attempts are equal in
\* number; and the step from the sleep is the fetch, with no item processed.
C8_SleepBeforeEveryFetch ==
    /\ [](IF pc = "search" THEN sleeps = fetches + 1 ELSE sleeps = fetches)
    /\ [][fetches' = fetches + 1 => (sleeps = fetches + 1 /\ sleeps' = sleeps)]_vars
    /\ [][pc = "search" => (stats' = stats /\ disk' = disk)]_vars

\* a run of three fetches, each after its sleep, has returned
C8_Witness ==
    /\ pc = "returned" /\ result = "nil"
    /\ fetches = 3 /\ sleeps = 3

C10_RunCompletes ==
    (pc = "loop") ~> (pc = "returned" /\ result \in {"nil", "error"})

\* C10 with the panic counted as an end: every run ends.
C10_RunEnds == (pc = "loop") ~> Ended

\* C11: between the reset at the call of DownloadAll and its return, no step
\* decreases total, downloaded, errors or the byte counter.
C11_CountersMonotonic ==
    [][runs' = runs => /\ stats'.total >= stats.total
                       /\ stats'.downloaded >= stats.downloaded
                       /\ stats'.errors >= stats.errors
                       /\ stats'.totalsize >= stats.totalsize]_vars

\* a run has counted a download of the first version of an asset (2 bytes),
\* then one of the second version (1 byte)
C11_Witness ==
    /\ runs = 1
    /\ remoteVer = 2
    /\ stats.downloaded = 2
    /\ stats.totalsize = 3
    /\ last.called /\ last.created /\ ~last.err

\* C12: the URL handed to http.Get by a downloadItem call is the item's
\* BaseUrl followed by "=dv" when the item is a video and by "=d" when it
\* is not, and a response is the response to that URL.
C12_VariantSelection ==
    [][(last'.called /\ last'.request # NoUrl) =>
          /\ last'.request = CalledItem.BaseUrl \o
                (IF CalledItem.Video THEN <<"=","d","v">> ELSE <<"=","d">>)
          /\ last'.url \in {NoUrl, last'.request}]_vars

\* a video was fetched with the "=dv" suffix and its payload written
C12_Witness ==
    /\ last.called /\ last.item = "h"
    /\ Item("h", 1).Video
    /\ last.url = UrlOf(IdShort) \o <<"=","d","v">>
    /\ last.created /\ ~last.err

\* C13, as amended: after the items of a page have been processed, the
\* driver sleeps and fetches another page exactly when that page came with
\* a non-empty token and no item beyond the cap has been met (total is at
\* most MaxItems); in every other case it returns nil without a further
\* sleep or fetch.
C13_BackToListing ==
    [][(pc = "loop" /\ pc' # "loop" /\ fetches >= 1) =>
          IF items.NextPageToken # "" /\ stats.total <= MaxItems
          THEN pc' = "search" /\ sleeps' = sleeps + 1 /\ fetches' = fetches
          ELSE /\ pc' = "returned" /\ result' = "nil"
               /\ sleeps' = sleeps /\ fetches' = fetches]_vars

\* a page with a token ended exactly at the cap, and the driver has slept
\* and stands at the next fetch
C13_Witness ==
    /\ pc = "search"
    /\ fetches = 1
    /\ MaxItems = 2 /\ stats.total = MaxItems
    /\ items.NextPageToken # ""

\* C13 as stated: the driver sleeps and fetches another page only when the
\* page came with a non-empty token and fewer than MaxItems items have been
\* processed; in every other case it returns nil without a further sleep or
\* fetch.
C13_StopsAtCap ==
    [][(pc = "loop" /\ pc' # "loop" /\ fetches >= 1) =>
          IF items.NextPageToken # "" /\ stats.total < MaxItems
          THEN pc' = "search" /\ sleeps' = sleeps + 1 /\ fetches' = fetches
          ELSE /\ pc' = "returned" /\ result' = "nil"
               /\ sleeps' = sleeps /\ fetches' = fetches]_vars

\* a path that is not a sidecar's is unchanged by the step: the file is
\* there before and after with the same content, or not there at all
PayloadsUnchanged ==
    \A p \in (DOMAIN disk.files) \cup (DOMAIN disk'.files) :
        ~IsSidecar(p) => /\ p \in DOMAIN disk.files
                         /\ p \in DOMAIN disk'.files
                         /\ disk'.files[p] = disk.files[p]

\* C14: a downloadItem call in which serializing the metadata, creating the
\* directories or writing the sidecar fails returns the error (counted as
\* one) without a content fetch, leaves every payload file, downloaded and
\* the byte counter as they are; and a call that makes the content fetch
\* has its sidecar on disk, unless os.Stat of it failed.
C14_MetadataBeforePayload ==
    /\ [][(last'.called /\ last'.failed \in {"marshal", "mkdir", "openJSON", "write"})
            => /\ last'.err
               /\ last'.request = NoUrl
               /\ ~last'.created
               /\ PayloadsUnchanged
               /\ stats'.downloaded = stats.downloaded
               /\ stats'.totalsize = stats.totalsize
               /\ stats'.errors = stats.errors + 1]_vars
    /\ [][(last'.called /\ last'.request # NoUrl /\ ~last'.statJSON)
            => Exists(disk', jsonNameOf(last'.name))]_vars

\* the write of a sidecar broke off after another item of the run had been
\* downloaded
C14_Witness ==
    /\ last.called /\ last.err /\ last.failed = "write"
    /\ last.request = NoUrl
    /\ stats.total = 2 /\ stats.downloaded = 1 /\ stats.errors = 1
    /\ Exists(disk, jsonNameOf(last.name))

\* C15: when a downloadItem call has returned, the body of the response it
\* obtained, if any, is closed.
C15_BodiesClosed == last.called => ~last.open

\* C15 on the paths that reach the copy: a call that created the payload
\* file, or got no response, leaves no body open.
C15_ClosedAfterCreate ==
    (last.called /\ (last.created \/ last.url = NoUrl)) => ~last.open

\* C16: after a downloadItem call that returned success, the sidecar at the
\* item's sidecar path is this item's (it starts with its identifier) and
\* the payload at its payload path is this item's content (the content of
\* its URL): no other item's files stand in their place.
C16_NoPathCollision ==
    [][(last'.called /\ ~last'.panic /\ ~last'.err) =>
          LET j == JsonPath(CalledItem)
              p == ImagePath(CalledItem)
          IN  /\ (Exists(disk', j) /\ Len(disk'.files[j]) >= 1)
                    => disk'.files[j][1] = CalledItem.Id
              /\ (Exists(disk', p) /\ Len(disk'.files[p]) >= 1)
                    => disk'.files[p][1] = ContentUrl(CalledItem)]_vars

\* C17, as amended: the name of an item whose creation time does not parse
\* is the root followed by two directories, the first and the second 4
\* characters of the hex digest of the identifier, and a leaf, the
\* remaining 24 characters; it is built from the root and the identifier
\* alone; and an item whose creation time parses is not named so.
C17_HashFallback ==
    [][(last'.called /\ ~last'.panic) =>
          LET hash == Md5Hex(CalledItem.Id)
              byHash == <<BackupFolder, SubSeq(hash, 1, 4), SubSeq(hash, 5, 8),
                          SubSeq(hash, 9, 32)>>
          IN  IF ParseRFC3339(CalledItem.CreationTime).err
              THEN last'.name = byHash
              ELSE last'.name # byHash]_vars

\* an item whose creation time does not parse was persisted under
\* pics/9113/677e/<the rest of the digest of its identifier>
C17_Witness ==
    /\ last.called /\ last.item = "c" /\ ~last.err
    /\ ParseRFC3339(Item("c", 1).CreationTime).err
    /\ Len(last.name) = 4
    /\ last.name[2] = <<"9","1","1","3">>
    /\ last.name[3] = <<"6","7","7","e">>
    /\ Len(last.name[4]) = 24
    /\ Exists(disk, jsonNameOf(last.name))

\* C17 as stated: the name of an item whose creation time does not parse is
\* the root followed by three directories, the first three 4-character
\* slices of the hex digest, and the remaining 20 characters as the leaf.
C17_ThreeLevels ==
    [][(last'.called /\ ~last'.panic) =>
          LET hash == Md5Hex(CalledItem.Id)
              byHash == <<BackupFolder, SubSeq(hash, 1, 4), SubSeq(hash, 5, 8),
                          SubSeq(hash, 9, 12), SubSeq(hash, 13, 32)>>
          IN  IF ParseRFC3339(CalledItem.CreationTime).err
              THEN last'.name = byHash
              ELSE last'.name # byHash]_vars

\* C18: every call of DownloadAll starts with the four counters at 0 and an
\* empty page token, whatever the previous run left; the first fetch of a
\* run is made with the empty token; and at every point of a run total is
\* at most the number of items the pages of this run delivered, so the
\* counters describe this run only.
C18_ResetAtRunStart ==
    /\ [][runs' = runs + 1
            => /\ stats' = ZeroStats
               /\ PageToken' = ""
               /\ hasMore'
               /\ pc' = "loop"]_vars
    /\ [](fetches = 0 => PageToken = "")
    /\ [](/\ stats.total <= delivered
          /\ stats.downloaded + stats.errors <= stats.total)

\* a second run has returned: it found the payload of the first run
\* complete, and its counters show three items examined and no download
C18_Witness ==
    /\ runs = 2
    /\ pc = "returned" /\ result = "nil"
    /\ listing = <<"a", "b", "d">>
    /\ stats.total = 3 /\ stats.downloaded = 0 /\ stats.errors = 0
    /\ Exists(disk, ImagePath(Item("a", 1)))

\* C19: in every state, total is at most MaxItems + 1, downloaded + errors
\* is at most the smaller of total and MaxItems, and an item is handed to
\* downloadItem only while total is at most MaxItems.
C19_CounterBounds ==
    /\ stats.total <= MaxItems + 1
    /\ stats.downloaded + stats.errors <= Min(stats.total, MaxItems)
    /\ last.called => stats.total <= MaxItems

\* a capped run has met the item beyond the cap: total is MaxItems + 1, and
\* the MaxItems items before it were one downloaded and one failed
C19_Witness ==
    /\ MaxItems = 2
    /\ Len(listing) > MaxItems
    /\ stats.total = MaxItems + 1
    /\ stats.downloaded = 1 /\ stats.errors = 1
    /\ pc = "returned"

\* the downloadItem call of the step taken met no fault, and it belongs to
\* a later run than the first in which no call has returned an error
FaultFreeRerun ==
    /\ runs >= 2
    /\ stats'.errors = 0
    /\ last'.called /\ ~last'.panic
    /\ last'.failed = "none" /\ ~last'.statJSON

\* C20: after a fault-free downloadItem call of a later, fault-free run,
\* the item's sidecar is not a truncated serialization of its metadata and
\* its payload file is as long as the remote content, whatever the earlier
\* run left.
C20_RecoveryByRerun ==
    [][FaultFreeRerun =>
          LET j == JsonPath(CalledItem)
              p == ImagePath(CalledItem)
          IN  /\ Exists(disk', j)
              /\ ~ProperPrefix(disk'.files[j], MarshalJSON(CalledItem))
              /\ Exists(disk', p)
              /\ Len(disk'.files[p]) = Len(RemoteBody(last'.url, remoteVer))]_vars

\* C20 for the payload alone: after a fault-free downloadItem call of a
\* later, fault-free run the payload file is as long as the remote content.
C20_PayloadRecovers ==
    [][FaultFreeRerun =>
          LET p == ImagePath(CalledItem)
          IN  /\ Exists(disk', p)
              /\ Len(disk'.files[p]) = Len(RemoteBody(last'.url, remoteVer))]_vars

====
